---- MODULE Spec2Model ----
(***************************************************************************)
(* Model of the angelcardus end-to-end suite: the webhook receiver         *)
(* (ui/webhooks/server.js), the cookie-consent handler and the page        *)
(* objects (ui/pages/BasePage.js, HomePage.js, PlatformPage.js), the test  *)
(* run under playwright.config.js and the beforeEach hooks of ui/tests.    *)
(***************************************************************************)
EXTENDS Naturals, Sequences, FiniteSets

VARIABLES
    \* ---- webhook receiver (ui/webhooks/server.js) ----
    WEBHOOK_SECRET, \* the secret the process was started with
    req,            \* the request being answered: [ep, text, header]
    verified,       \* outcome of the signature check of that request
    res,            \* the response sent: [status, body]
    log,            \* logger calls made while answering that request
    read,           \* payload fields destructured from req.body
    noted,          \* one earlier webhook request and its decision
    \* ---- cookie-consent handler (BasePage.acceptCookies) ----
    pageText,       \* document.body.innerText, a sequence of words
    caller,         \* who invoked acceptCookies
    pc,             \* position inside acceptCookies
    bannerIdx,      \* index into cookieBanners of the Method 3 loop
    trace,          \* browser calls of the current invocation, in order
    clicked,        \* page state: successful clicks since the page loaded
    outcome,        \* how each finished invocation ended, in order
    warned,         \* logger.warn calls of the current invocation
    \* ---- page objects (HomePage, PlatformPage, BasePage) ----
    pageObject,     \* the page object the test constructed
    dom,            \* the live page: the elements each locator matches
    url,            \* page.url()
    acted,          \* page state: the element clicked last ("" if none)
    method,         \* the page-object method called last
    ret,            \* what that call returned or raised
    probed,         \* browser calls made by that call, in order
    again,          \* TRUE when the call before it was the same method
    listed,         \* TRUE when the call before it listed an email login option
    waited,         \* the last run of waitForPageLoad: what the page did and how it ended
    \* ---- test runner and hooks (playwright.config.js, ui/tests) ----
    suite,          \* the run: [env, config, pending, active, started]
    hook            \* the beforeEach hook being run: [name, pc, k, i, n, calls, outcome]

webhookVars == <<WEBHOOK_SECRET, req, verified, res, log, read, noted>>
cookieVars  == <<pageText, caller, pc, bannerIdx, trace, clicked, outcome, warned>>
pageVars    == <<pageObject, dom, url, acted, method, ret, probed, again, listed, waited>>
runVars     == <<suite, hook>>
vars == <<WEBHOOK_SECRET, req, verified, res, log, read, noted,
          pageText, caller, pc, bannerIdx, trace, clicked, outcome, warned,
          pageObject, dom, url, acted, method, ret, probed, again, listed, waited,
          suite, hook>>

(***************************************************************************)
(* Webhook receiver                                                        *)
(***************************************************************************)

\* JSON documents a client may send.  A request body is a JSON text: a
\* document in one of two layouts (the compact text JSON.stringify emits, or
\* the same document with insignificant whitespace).
Docs == {"results", "noResults", "ciTrigger"}
Layouts == {"compact", "spaced"}
Texts == [doc : Docs, layout : Layouts]
NoText == [doc |-> "", layout |-> ""]

\* The members of each document.
Fields(doc) ==
    CASE doc = "results"   -> {"testResults", "buildId", "runId"}
      [] doc = "noResults" -> {"buildId", "runId"}
      [] doc = "ciTrigger" -> {"repository", "branch", "commit", "action"}
      [] OTHER             -> {}

\* express.json(): req.body is the parsed document; the layout of the text
\* is gone.
ParseJson(text) == text.doc

\* JSON.stringify(payload): the compact text of the document.
JsonStringify(payload) == [doc |-> payload, layout |-> "compact"]

\* createHmac('sha256', key).update(msg).digest('hex'), as an injective
\* function of (key, msg).  flip marks a digest with one hex digit changed.
HmacSha256Hex(key, msg) == [key |-> key, msg |-> msg, flip |-> FALSE]
NoHex == [key |-> "", msg |-> NoText, flip |-> FALSE]

\* Values of the X-Webhook-Signature header: prefix followed by hex.
NoHeader    == [prefix |-> "<absent>", hex |-> NoHex]
EmptyHeader == [prefix |-> "", hex |-> NoHex]
Signed(key, msg) == [prefix |-> "sha256=", hex |-> HmacSha256Hex(key, msg)]
Bare(key, msg)   == [prefix |-> "", hex |-> HmacSha256Hex(key, msg)]
Tampered(h)      == [h EXCEPT !.hex.flip = TRUE]

EnvSecrets == {"", "s3cret"}
\* The header values a client sends along with the body text: none, empty,
\* a signature over any body text under the server's secret, a signature
\* over this text under another key, and the digest the server expects
\* without its prefix or with one hex digit changed.
HeadersFor(text) ==
    {NoHeader, EmptyHeader}
    \cup {Signed(WEBHOOK_SECRET, m) : m \in Texts}
    \cup {Signed("wrong_key", text)}
    \cup {Bare(WEBHOOK_SECRET, JsonStringify(ParseJson(text)))}
    \cup {Tampered(Signed(WEBHOOK_SECRET, JsonStringify(ParseJson(text))))}

\* !signature
Falsy(signature) == signature = NoHeader \/ signature = EmptyHeader

verifySignature_IgnoresPrefix(signature, payload) ==
    signature.hex = HmacSha256Hex(WEBHOOK_SECRET, JsonStringify(payload))

verifySignature(signature, payload) ==
    LET digest == Signed(WEBHOOK_SECRET, JsonStringify(payload))
    IN  signature = digest

Unauthorized == [status |-> 401, body |-> "error: Invalid signature"]
Success      == [status |-> 200, body |-> "status: success"]
Healthy      == [status |-> 200, body |-> "status: healthy"]
ServerError  == [status |-> 500, body |-> "TypeError"]
NoResponse   == [status |-> 0, body |-> ""]

Warn(msg)         == [level |-> "warn", msg |-> msg, fields |-> {}]
Info(msg, fields) == [level |-> "info", msg |-> msg, fields |-> fields]

NoRequest == [ep |-> "", text |-> NoText, header |-> NoHeader]
NoNote    == [text |-> NoText, header |-> NoHeader, verified |-> FALSE]

WebhookEndpoints == {"test-results", "ci-trigger"}

\* The ghost noted keeps one webhook request answered before the current
\* one, with its decision: each step may replace it by the request that was
\* answered last.
Note ==
    noted' \in {noted} \cup
               (IF req.ep \in WebhookEndpoints
                THEN {[text |-> req.text, header |-> req.header, verified |-> verified]}
                ELSE {})

\* What a handler does with request r; ok is the outcome of the guard
\* !signature || !verifySignature(signature, req.body), destructured the
\* fields the handler reads, lines the log lines after the guard.
Answer(r, ok, destructured, lines, response) ==
    /\ req' = r
    /\ verified' = ok
    /\ IF ~ok
       THEN /\ log' = <<Warn("Invalid webhook signature")>>
            /\ read' = {}
            /\ res' = Unauthorized
       ELSE /\ log' = lines
            /\ read' = destructured
            /\ res' = response
    /\ Note
    /\ UNCHANGED <<WEBHOOK_SECRET, cookieVars, pageVars, runVars>>

PostTestResults_Replay ==
    \E text \in Texts : \E signature \in HeadersFor(text) :
        LET r == [ep |-> "test-results", text |-> text, header |-> signature]
            body == ParseJson(text)
            ok == /\ ~Falsy(signature)
                  /\ verifySignature(signature, body)
                  /\ signature # noted.header
            got == Fields(body) \cap {"testResults", "buildId", "runId"}
        IN  Answer(r, ok, got, <<Info("Received test results webhook", {"buildId", "runId"})>>, Success)

PostTestResults_LogFirst ==
    \E text \in Texts : \E signature \in HeadersFor(text) :
        LET r == [ep |-> "test-results", text |-> text, header |-> signature]
            body == ParseJson(text)
            ok == ~Falsy(signature) /\ verifySignature(signature, body)
            got == Fields(body) \cap {"testResults", "buildId", "runId"}
        IN  /\ req' = r
            /\ verified' = ok
            /\ read' = got
            /\ log' = <<Info("Received test results webhook", {"buildId", "runId"})>>
                      \o (IF ok THEN <<>> ELSE <<Warn("Invalid webhook signature")>>)
            /\ res' = IF ok THEN Success ELSE Unauthorized
            /\ Note
            /\ UNCHANGED <<WEBHOOK_SECRET, cookieVars, pageVars, runVars>>

\* app.post('/webhook/test-results', ...)
PostTestResults ==
    \E text \in Texts : \E signature \in HeadersFor(text) :
        LET r == [ep |-> "test-results", text |-> text, header |-> signature]
            body == ParseJson(text)
            ok == ~Falsy(signature) /\ verifySignature(signature, body)
            got == Fields(body) \cap {"testResults", "buildId", "runId"}
            first == Info("Received test results webhook", {"buildId", "runId"})
        IN  IF "testResults" \in Fields(body)
            THEN Answer(r, ok, got,
                        <<first, Info("Test summary", {"testResults.summary"})>>,
                        Success)
            \* testResults is undefined: testResults.summary throws a
            \* TypeError after the first log line; express answers 500
            ELSE Answer(r, ok, got, <<first>>, ServerError)

\* app.post('/webhook/ci-trigger', ...)
PostCiTrigger ==
    \E text \in Texts : \E signature \in HeadersFor(text) :
        LET r == [ep |-> "ci-trigger", text |-> text, header |-> signature]
            body == ParseJson(text)
            ok == ~Falsy(signature) /\ verifySignature(signature, body)
            got == Fields(body) \cap {"repository", "branch", "commit", "action"}
        IN  Answer(r, ok, got,
                   <<Info("Received CI trigger webhook", {"repository", "branch", "commit"}),
                     Info("Action", {"action"})>>,
                   Success)

GetHealth_RequiresSignature ==
    \E signature \in {NoHeader, EmptyHeader, Signed(WEBHOOK_SECRET, NoText)} :
        /\ req' = [ep |-> "health", text |-> NoText, header |-> signature]
        /\ verified' = FALSE
        /\ log' = <<>>
        /\ read' = {}
        /\ res' = IF Falsy(signature) THEN Unauthorized ELSE Healthy
        /\ Note
        /\ UNCHANGED <<WEBHOOK_SECRET, cookieVars, pageVars, runVars>>

\* app.get('/health', ...)
GetHealth ==
    \E signature \in {NoHeader, EmptyHeader, Signed(WEBHOOK_SECRET, NoText)} :
        /\ req' = [ep |-> "health", text |-> NoText, header |-> signature]
        /\ verified' = FALSE
        /\ log' = <<>>
        /\ read' = {}
        /\ res' = Healthy
        /\ Note
        /\ UNCHANGED <<WEBHOOK_SECRET, cookieVars, pageVars, runVars>>

CookiesIdle ==
    /\ pageText = <<>>
    /\ caller = ""
    /\ pc = "idle"
    /\ bannerIdx = 0
    /\ trace = <<>>
    /\ clicked = <<>>
    /\ outcome = <<>>
    /\ warned = <<>>

NoError == [type |-> "", message |-> "", candidates |-> <<>>]
NoReturn == [kind |-> "", value |-> <<>>, error |-> NoError, logged |-> FALSE]

\* waitForPageLoad not yet run
NoWait == [loadFired |-> FALSE, bodyAt |-> 0, navAt |-> 0, headerAt |-> 0,
           kind |-> "", elapsed |-> 0, warned |-> FALSE]

\* no run started, no hook entered
NoSuite == [env |-> <<>>, config |-> <<>>, pending |-> <<>>, active |-> {}, started |-> 0]
NoHook == [name |-> "", pc |-> "", k |-> 0, i |-> 0, n |-> 0, calls |-> <<>>, outcome |-> ""]
RunIdle == suite = NoSuite /\ hook = NoHook

PagesIdle ==
    /\ RunIdle
    /\ waited = NoWait
    /\ pageObject = ""
    /\ dom = <<>>
    /\ url = ""
    /\ acted = ""
    /\ method = ""
    /\ ret = NoReturn
    /\ probed = <<>>
    /\ again = FALSE
    /\ listed = FALSE

\* const WEBHOOK_SECRET = process.env.WEBHOOK_SECRET || 'default_secret'
InitWebhook ==
    /\ \E env \in EnvSecrets :
           WEBHOOK_SECRET = IF env = "" THEN "default_secret" ELSE env
    /\ req = NoRequest
    /\ verified = FALSE
    /\ res = NoResponse
    /\ log = <<>>
    /\ read = {}
    /\ noted = NoNote
    /\ CookiesIdle
    /\ PagesIdle

NextWebhook == PostTestResults \/ PostCiTrigger \/ GetHealth

SpecWebhook == InitWebhook /\ [][NextWebhook]_vars

(***************************************************************************)
(* Cookie-consent handler                                                  *)
(***************************************************************************)

MaxCalls == 2       \* invocations of acceptCookies on one page
MaxButtons == 2     \* buttons the role locator of Method 2 may match

\* document.body.innerText: a string is a sequence of characters.
PageTexts ==
    { <<>>,
      <<"W", "e", "l", "c", "o", "m", "e">>,
      <<"C", "o", "o", "k", "i", "e", "s">>,
      <<"C", "O", "N", "S", "E", "N", "T">>,
      <<"P", "r", "i", "v", "a", "c", "y">> }

\* String.prototype.toLowerCase
LowerChar(c) ==
    CASE c = "W" -> "w" [] c = "C" -> "c" [] c = "O" -> "o" [] c = "N" -> "n"
      [] c = "S" -> "s" [] c = "E" -> "e" [] c = "T" -> "t" [] c = "P" -> "p"
      [] OTHER -> c
toLowerCase(str) == [i \in 1..Len(str) |-> LowerChar(str[i])]

\* String.prototype.includes
includes(str, sub) ==
    \E i \in 0..Len(str) :
        /\ i + Len(sub) <= Len(str)
        /\ SubSeq(str, i + 1, i + Len(sub)) = sub

hasCookieBanner_CaseSensitive(text) ==
    \/ includes(text, <<"c", "o", "o", "k", "i", "e">>)
    \/ includes(text, <<"c", "o", "n", "s", "e", "n", "t">>)
    \/ includes(text, <<"p", "r", "i", "v", "a", "c", "y">>)

\* the function page.evaluate runs in the browser
hasCookieBanner(text) ==
    \/ includes(toLowerCase(text), <<"c", "o", "o", "k", "i", "e">>)
    \/ includes(toLowerCase(text), <<"c", "o", "n", "s", "e", "n", "t">>)
    \/ includes(toLowerCase(text), <<"p", "r", "i", "v", "a", "c", "y">>)

\* Method 3's list of banner containers
cookieBanners ==
    <<".cookie-banner", ".cookie-consent", ".cookie-notice", ".gdpr-banner",
      ".cky-consent-container">>

dataAttrButton == "[data-cky-tag=accept-button]"
buttonsByRole  == "role=button[name=/Accept|Accept All|OK|Agree/i]"

\* acceptCookies is called by the tests directly and through
\* PlatformPage.handleCookieConsent, which wraps it in try/catch.
Callers == {"acceptCookies", "handleCookieConsent"}

\* What a visibility probe (isVisible(...).catch(() => false)) can do
ProbeResults == {"visible", "hidden", "throws"}

\* isVisible({ timeout }).catch(() => false): the value the handler sees
Caught(r) == r = "visible"

Ev(op, target, result) == [op |-> op, target |-> target, result |-> result]

\* The invocation ends: acceptCookies returned or raised; a raise reaches
\* the caller unless handleCookieConsent catches it.
Finish(result, warnings) ==
    /\ pc' = "idle"
    /\ outcome' = Append(outcome,
                         [caller |-> caller, acceptCookies |-> result,
                          propagated |-> (result = "raised" /\ caller = "acceptCookies")])
    /\ warned' = IF result = "raised" /\ caller = "handleCookieConsent"
                 THEN warnings \o <<"Cookie handling error">>
                 ELSE warnings

Invoke ==
    /\ pc = "idle"
    /\ Len(outcome) < MaxCalls
    /\ caller' \in Callers
    /\ pc' = "screenshot"
    /\ bannerIdx' = 0
    /\ trace' = <<>>
    /\ warned' = <<>>
    /\ UNCHANGED <<pageText, clicked, outcome, webhookVars, pageVars, runVars>>

\* await this.page.screenshot(...), outside every try block
TakeScreenshot ==
    /\ pc = "screenshot"
    /\ \E ok \in BOOLEAN :
        /\ trace' = Append(trace, Ev("screenshot", "page", ok))
        /\ IF ok
           THEN pc' = "probe" /\ UNCHANGED <<outcome, warned>>
           ELSE Finish("raised", warned)
    /\ UNCHANGED <<pageText, caller, bannerIdx, clicked, webhookVars, pageVars, runVars>>

\* await this.page.evaluate(...), outside every try block, then the
\* early return when no banner text is found
ProbeText ==
    /\ pc = "probe"
    /\ \E ok \in BOOLEAN :
        /\ trace' = Append(trace, Ev("evaluate", "page", ok))
        /\ IF ~ok
           THEN Finish("raised", warned)
           ELSE IF hasCookieBanner(pageText)
                THEN pc' = "method1" /\ UNCHANGED <<outcome, warned>>
                ELSE Finish("returned", warned)
    /\ UNCHANGED <<pageText, caller, bannerIdx, clicked, webhookVars, pageVars, runVars>>

\* locator.click().catch(e => logger.warn(...)); return
ClickAccept(at, target, warning) ==
    /\ pc = at
    /\ \E ok \in BOOLEAN :
        /\ trace' = Append(trace, Ev("click", target, ok))
        /\ clicked' = IF ok THEN Append(clicked, target) ELSE clicked
        /\ Finish("returned", IF ok THEN warned ELSE Append(warned, warning))
    /\ UNCHANGED <<pageText, caller, bannerIdx, webhookVars, pageVars, runVars>>

\* Method 1: the data-attribute accept button
Method1 ==
    /\ pc = "method1"
    /\ \E r \in ProbeResults :
        /\ trace' = Append(trace, Ev("isVisible", dataAttrButton, Caught(r)))
        /\ pc' = IF Caught(r) THEN "click1" ELSE "method2"
    /\ UNCHANGED <<pageText, caller, bannerIdx, clicked, outcome, warned, webhookVars, pageVars, runVars>>

Click1_NoReturn ==
    /\ pc = "click1"
    /\ \E ok \in BOOLEAN :
        /\ trace' = Append(trace, Ev("click", dataAttrButton, ok))
        /\ clicked' = IF ok THEN Append(clicked, dataAttrButton) ELSE clicked
    /\ pc' = "method2"
    /\ UNCHANGED <<pageText, caller, bannerIdx, outcome, warned, webhookVars, pageVars, runVars>>

Click1 == ClickAccept("click1", dataAttrButton, "Failed to click button with data attribute")

\* Method 2: buttons by role; count() is inside the try block
Method2 ==
    /\ pc = "method2"
    /\ \E count \in 0..MaxButtons, thrown \in BOOLEAN :
        IF thrown
        THEN /\ count = 0
             /\ trace' = Append(trace, Ev("count", buttonsByRole, FALSE))
             /\ warned' = Append(warned, "Method 2 failed")
             /\ pc' = "method3"
             /\ bannerIdx' = 1
        ELSE /\ trace' = Append(trace, Ev("count", buttonsByRole, count > 0))
             /\ IF count > 0
                THEN pc' = "click2" /\ UNCHANGED <<warned, bannerIdx>>
                ELSE pc' = "method3" /\ bannerIdx' = 1 /\ UNCHANGED warned
    /\ UNCHANGED <<pageText, caller, clicked, outcome, webhookVars, pageVars, runVars>>

\* Method 2 without the return after its click
Click2_NoReturn ==
    /\ pc = "click2"
    /\ \E ok \in BOOLEAN :
        /\ trace' = Append(trace, Ev("click", buttonsByRole, ok))
        /\ clicked' = IF ok THEN Append(clicked, buttonsByRole) ELSE clicked
    /\ pc' = "method3"
    /\ bannerIdx' = 1
    /\ UNCHANGED <<pageText, caller, outcome, warned, webhookVars, pageVars, runVars>>

Click2 == ClickAccept("click2", buttonsByRole, "Failed to click button by role")

\* Method 3: one turn of the loop over cookieBanners; after the last
\* selector the handler logs and returns
Method3 ==
    /\ pc = "method3"
    /\ \E r \in ProbeResults :
        /\ trace' = Append(trace, Ev("isVisible", cookieBanners[bannerIdx], Caught(r)))
        /\ IF Caught(r)
           THEN pc' = "click3" /\ UNCHANGED <<bannerIdx, outcome, warned>>
           ELSE IF bannerIdx < Len(cookieBanners)
                THEN /\ bannerIdx' = bannerIdx + 1
                     /\ UNCHANGED <<pc, outcome, warned>>
                ELSE Finish("returned", warned) /\ UNCHANGED bannerIdx
    /\ UNCHANGED <<pageText, caller, clicked, webhookVars, pageVars, runVars>>

Click3 ==
    /\ pc = "click3"
    /\ ClickAccept("click3", cookieBanners[bannerIdx], "Found banner but failed to click accept button")

WebhookIdle ==
    /\ WEBHOOK_SECRET = "default_secret"
    /\ req = NoRequest
    /\ verified = FALSE
    /\ res = NoResponse
    /\ log = <<>>
    /\ read = {}
    /\ noted = NoNote

InitCookies ==
    /\ pageText \in PageTexts
    /\ caller = ""
    /\ pc = "idle"
    /\ bannerIdx = 0
    /\ trace = <<>>
    /\ clicked = <<>>
    /\ outcome = <<>>
    /\ warned = <<>>
    /\ WebhookIdle
    /\ PagesIdle

NextCookies ==
    \/ Invoke
    \/ TakeScreenshot
    \/ ProbeText
    \/ Method1
    \/ Click1
    \/ Method2
    \/ Click2
    \/ Method3
    \/ Click3

SpecCookies == InitCookies /\ [][NextCookies]_vars

(***************************************************************************)
(* Claims about the webhook receiver, checked under SpecWebhook            *)
(***************************************************************************)

IsWebhook == req.ep \in WebhookEndpoints

\* "sha256=" followed by the digest verifySignature computes for the body
ExpectedDigest(text) == Signed(WEBHOOK_SECRET, JsonStringify(ParseJson(text)))

\* C1: on /webhook/test-results, a body with testResults.summary, buildId
\* and runId is answered 200 {status:"success"} when the header is "sha256="
\* followed by the HMAC-SHA256 of the body under the configured secret, and
\* 401 when that signature is altered.
C1_SignedBodyAccepted ==
    (/\ req.ep = "test-results"
     /\ {"testResults", "buildId", "runId"} \subseteq Fields(ParseJson(req.text)))
    => /\ req.header = Signed(WEBHOOK_SECRET, req.text) => res = Success
       /\ req.header # Signed(WEBHOOK_SECRET, req.text) => res.status = 401

\* C2: on either webhook endpoint a signature that is valid for a body B is
\* rejected with 401 when it is presented with a different body B'.
C2_SignatureBoundToExactBody ==
    IsWebhook =>
        \A B \in Texts :
            (B # req.text /\ req.header = Signed(WEBHOOK_SECRET, B))
            => res.status = 401

C4_NoPartialProcessing ==
    /\ (IsWebhook /\ ~verified) =>
           /\ res = Unauthorized
           /\ read = {}
           /\ \A i \in 1..Len(log) : log[i].fields = {}
    /\ res.status = 401 =>
           /\ read = {}
           /\ \A i \in 1..Len(log) : log[i].level # "info"

C4_Witness ==
    /\ req.ep = "test-results"
    /\ req.text.doc = "results"
    /\ req.header = Tampered(ExpectedDigest(req.text))
    /\ res = Unauthorized
    /\ read = {}

\* C5: every request to a webhook endpoint is answered with exactly one of
\* 200 {status:"success"} and 401 {error:"Invalid signature"}, also a
\* correctly signed body without the documented fields.
C5_OnlySuccessOrUnauthorized ==
    IsWebhook => res \in {Success, Unauthorized}

\* C6: the accept/reject decision depends only on (secret, body, header):
\* a request with the body and header of an earlier request gets the
\* decision the earlier one got, whatever was answered in between.
C6_DecisionDeterministic ==
    (/\ IsWebhook
     /\ noted # NoNote
     /\ noted.text = req.text
     /\ noted.header = req.header)
    => verified = noted.verified

C6_Witness ==
    /\ req.ep = "ci-trigger"
    /\ noted # NoNote
    /\ noted.text = req.text
    /\ noted.header = req.header
    /\ verified
    /\ res = Success

\* C7: GET /health answers 200 {status:"healthy"} with or without a
\* signature header and whatever webhook requests came before.
C7_HealthUnconditional ==
    req.ep = "health" => res = Healthy

C7_Witness ==
    /\ req.ep = "health"
    /\ req.header = NoHeader
    /\ noted # NoNote
    /\ ~noted.verified
    /\ res = Healthy

(***************************************************************************)
(* Claims about the cookie-consent handler, checked under SpecCookies      *)
(***************************************************************************)

\* C8: BasePage.acceptCookies always returns normally: whichever internal
\* step fails (screenshot, text probe, visibility probe, count, click), no
\* invocation raises to its caller.
C8_AcceptCookiesNeverRaises ==
    \A i \in 1..Len(outcome) : outcome[i].acceptCookies = "returned"

StrategyOps == {"isVisible", "count", "click"}

\* C9: on a page whose text has none of "cookie", "consent", "privacy",
\* acceptCookies ends after the probe without trying a strategy, and
\* invoking it again changes nothing on the page, clicks nothing and raises
\* no error on either call.
C9_NoBannerNoOp ==
    ~hasCookieBanner(pageText) =>
        /\ \A i \in 1..Len(trace) : trace[i].op \notin StrategyOps
        /\ clicked = <<>>
        /\ \A i \in 1..Len(outcome) : outcome[i].acceptCookies = "returned"

\* Position of a locator in the order A, B, C (banner containers as listed)
Rank(target) ==
    IF target = dataAttrButton THEN 1
    ELSE IF target = buttonsByRole THEN 2
    ELSE 2 + (CHOOSE k \in 1..Len(cookieBanners) : cookieBanners[k] = target)

IsStrategyEv(e) == e.op \in StrategyOps
IsProbe(e) == e.op \in {"isVisible", "count"}

\* C10: within one invocation the strategies are tried in the order A, B,
\* C (banner selectors in listed order), none of them twice, a strategy only
\* after the ones before it, and nothing is probed or clicked after a click
\* that succeeded.
C10_StrategiesInOrder ==
    /\ \A i, j \in 1..Len(trace) :
           (i < j /\ IsStrategyEv(trace[i]) /\ IsStrategyEv(trace[j])) =>
               /\ Rank(trace[i].target) <= Rank(trace[j].target)
               /\ trace[i].op = trace[j].op =>
                      Rank(trace[i].target) < Rank(trace[j].target)
               /\ IsProbe(trace[i]) /\ IsProbe(trace[j]) =>
                      Rank(trace[i].target) < Rank(trace[j].target)
    /\ \A j \in 1..Len(trace) :
           (IsStrategyEv(trace[j]) /\ Rank(trace[j].target) > 1) =>
               \E i \in 1..(j - 1) :
                   /\ IsProbe(trace[i])
                   /\ Rank(trace[i].target) = Rank(trace[j].target) - 1
    /\ \A i \in 1..Len(trace) :
           (trace[i].op = "click" /\ trace[i].result) => i = Len(trace)

C10_Witness ==
    /\ pc = "idle"
    /\ Len(trace) = 7
    /\ trace[Len(trace)] = Ev("click", cookieBanners[2], TRUE)
    /\ clicked # <<>>

\* C11: when a strategy finds its accept control and the click on it fails
\* while later strategies or banner selectors remain, the next one is
\* attempted before the handler stops.
C11_FailedClickFallsBack ==
    pc = "idle" =>
        \A i \in 1..Len(trace) :
            (/\ trace[i].op = "click"
             /\ ~trace[i].result
             /\ Rank(trace[i].target) < 2 + Len(cookieBanners))
            => \E j \in (i + 1)..Len(trace) : IsProbe(trace[j])

(***************************************************************************)
(* Page objects: BasePage, HomePage, PlatformPage                          *)
(***************************************************************************)

MaxLive == 2        \* locators of a page that match at least one element
MaxMatches == 6     \* elements one locator may match

\* PlatformPage constructor: locators built without .first()
continueWithEmailButton  == "continueWithEmailButton"
continueWithGoogleButton == "continueWithGoogleButton"
continueWithAppleButton  == "continueWithAppleButton"
cookieConsentContainer   == "cookieConsentContainer"

\* the alternatives without the bare email input
alternativeSelectors_NoForm ==
    <<"a:has-text(/sign.?in/i)", "a:has-text(/log.?in/i)",
      "button:has-text(/sign.?in/i)", "button:has-text(/log.?in/i)",
      "a:has-text(/register/i)", "button:has-text(/register/i)">>

\* clickContinueWithEmail: the alternative selectors, each used with .first()
alternativeSelectors ==
    <<"form input[type=email]", "a:has-text(/sign.?in/i)", "a:has-text(/log.?in/i)",
      "button:has-text(/sign.?in/i)", "button:has-text(/log.?in/i)",
      "a:has-text(/register/i)", "button:has-text(/register/i)">>

\* the registry with the bare email input filed under the name "Email"
otherOptions_FormAsEmail ==
    <<[selector |-> "a:has-text(/facebook/i), button:has-text(/facebook/i)", name |-> "Facebook"],
      [selector |-> "a:has-text(/twitter/i), button:has-text(/twitter/i)", name |-> "Twitter"],
      [selector |-> "a:has-text(/github/i), button:has-text(/github/i)", name |-> "GitHub"],
      [selector |-> "a:has-text(/microsoft/i), button:has-text(/microsoft/i)", name |-> "Microsoft"],
      [selector |-> "form input[type=email]", name |-> "Email"]>>

\* getVisibleLoginOptions: the other options, each used with .first()
otherOptions ==
    <<[selector |-> "a:has-text(/facebook/i), button:has-text(/facebook/i)", name |-> "Facebook"],
      [selector |-> "a:has-text(/twitter/i), button:has-text(/twitter/i)", name |-> "Twitter"],
      [selector |-> "a:has-text(/github/i), button:has-text(/github/i)", name |-> "GitHub"],
      [selector |-> "a:has-text(/microsoft/i), button:has-text(/microsoft/i)", name |-> "Microsoft"],
      [selector |-> "form input[type=email]", name |-> "Email Form"]>>

\* isCookieConsentVisible: the accept button looked for after the container
acceptButton == "[data-cky-tag=accept-button], button:has-text(Accept)"

\* HomePage constructor and isEnterPlatformButtonVisible
angelCardLogo       == "img"
enterPlatformButton == "a:has-text(Enter Platform), button:has-text(Enter Platform), a:has-text(Enter), button:has-text(Enter)"
possibleButtons ==
    <<"role=link[name=/enter/i]", "role=button[name=/enter/i]",
      "a:has-text(Enter), button:has-text(Enter)">>

Range(seq) == {seq[i] : i \in 1..Len(seq)}

\* Locators queried as a whole (count(), nth(i), strict isVisible())
WholeLocators ==
    {continueWithEmailButton, continueWithGoogleButton, continueWithAppleButton,
     cookieConsentContainer}
\* Locators only ever used through .first()
FirstLocators ==
    Range(alternativeSelectors) \cup {otherOptions[i].selector : i \in 1..Len(otherOptions)}
    \cup {acceptButton, angelCardLogo, enterPlatformButton} \cup Range(possibleButtons)
\* The locators each method reads
LoginLocators ==
    {continueWithEmailButton, continueWithGoogleButton, continueWithAppleButton}
    \cup {otherOptions[i].selector : i \in 1..Len(otherOptions)}
EmailLocators == {continueWithEmailButton} \cup Range(alternativeSelectors)
ConsentLocators == {cookieConsentContainer, acceptButton}
HomeLocators == {angelCardLogo, enterPlatformButton} \cup Range(possibleButtons)
Locators == LoginLocators \cup EmailLocators \cup ConsentLocators \cup HomeLocators

\* The page: for each locator the elements it matches, in document order.
\* An element is visible ("v"), hidden ("h") or makes its visibility probe
\* throw ("x"); the list Broken stands for a locator whose every query
\* throws.
Broken == <<"broken">>
Hidden(n) == [i \in 1..n |-> "h"]
Matches(l) ==
    IF l = cookieConsentContainer
    THEN {<<"v">>, <<"x", "v">>, <<"h", "v", "v">>, Broken,
          Hidden(MaxMatches), Hidden(MaxMatches - 1) \o <<"v">>}
    ELSE IF l \in WholeLocators
    THEN {<<"v">>, <<"h">>, <<"x">>, <<"v", "v">>}
    ELSE {<<"v">>, <<"h", "v">>}

PagesOver(group) ==
    UNION { { [l \in Locators |-> IF l \in live THEN f[l] ELSE <<>>] :
              f \in {g \in [live -> UNION {Matches(l) : l \in live}] :
                        \A l \in live : g[l] \in Matches(l)} } :
            live \in {S \in SUBSET group : Cardinality(S) <= MaxLive} }

\* The pages a page object is used on: the platform page shows login
\* options, email entry points or a consent banner; the home page its own
\* controls.
PageObjects == {"HomePage", "PlatformPage"}
Pages(object) ==
    IF object = "PlatformPage"
    THEN PagesOver(LoginLocators) \cup PagesOver(EmailLocators) \cup PagesOver(ConsentLocators)
    ELSE PagesOver(HomeLocators)

\* ---- the browser's answers ----

\* locator.count()
count(l) == IF dom[l] = Broken THEN "throws" ELSE "ok"
countOf(l) == IF dom[l] = Broken THEN 0 ELSE Len(dom[l])

Probe(e) == IF e = "v" THEN "visible" ELSE IF e = "h" THEN "hidden" ELSE "throws"

\* locator.isVisible() on a locator without .first(): strict, it throws
\* when the locator matches more than one element
isVisibleStrict(l) ==
    IF dom[l] = Broken THEN "throws"
    ELSE IF Len(dom[l]) = 0 THEN "hidden"
    ELSE IF Len(dom[l]) > 1 THEN "throws"
    ELSE Probe(dom[l][1])

\* locator.nth(i).isVisible(); .first() is nth(0)
isVisibleNth(l, i) ==
    IF dom[l] = Broken THEN "throws"
    ELSE IF i + 1 > Len(dom[l]) THEN "hidden"
    ELSE Probe(dom[l][i + 1])

Call(what, target, nth, result) ==
    [op |-> what, target |-> target, nth |-> nth, result |-> result]

Returned(value) ==
    [kind |-> "returned", value |-> value, error |-> NoError, logged |-> FALSE]
Raised(type, message) ==
    [kind |-> "raised", value |-> <<>>, logged |-> FALSE,
     error |-> [type |-> type, message |-> message, candidates |-> <<>>]]
\* a catch block that logs and throws a not-found error of its own
LoggedAndRethrown_Replaced(r) ==
    [r EXCEPT !.logged = (r.kind = "raised"),
              !.error = IF r.kind = "raised"
                        THEN [type |-> "Error", message |-> "not found", candidates |-> <<>>]
                        ELSE r.error]

\* the ways locator.click() rejects: the actionability timeout, or the
\* element or page going away
ClickFailures == {"TimeoutError", "TargetClosedError"}

\* catch (error) { logger.error(...); throw error; }
LoggedAndRethrown(r) == [r EXCEPT !.logged = (r.kind = "raised")]

HomeUrl  == "https://www.angelcard.us/"
OtherUrl == "https://platform.angelcard.us/login"

\* BasePage.waitForPageLoad; times in seconds, nav and header counted from
\* the start of the race
BodyTimeout == 5
StructTimeout == 3
Min(a, b) == IF a <= b THEN a ELSE b
Settle(at) == Min(at, StructTimeout)

waitForPageLoad_NoTry(loadFired, bodyAt, navAt, headerAt) ==
    IF ~loadFired
    THEN [kind |-> "raised", elapsed |-> 0, warned |-> FALSE]
    ELSE IF bodyAt > BodyTimeout
    THEN [kind |-> "raised", elapsed |-> BodyTimeout, warned |-> FALSE]
    ELSE IF navAt > StructTimeout
    THEN [kind |-> "raised", elapsed |-> bodyAt + StructTimeout, warned |-> FALSE]
    ELSE [kind |-> "returned", elapsed |-> bodyAt + navAt, warned |-> FALSE]

waitForPageLoad(loadFired, bodyAt, navAt, headerAt) ==
    IF ~loadFired
    \* waitForLoadState('load') is outside the try block
    THEN [kind |-> "raised", elapsed |-> 0, warned |-> FALSE]
    ELSE IF bodyAt > BodyTimeout
    \* waitForSelector('body') throws after its timeout; caught and warned
    THEN [kind |-> "returned", elapsed |-> BodyTimeout, warned |-> TRUE]
    \* Promise.race of the two waits, each with .catch(() => {})
    ELSE [kind |-> "returned",
          elapsed |-> bodyAt + Min(Settle(navAt), Settle(headerAt)),
          warned |-> FALSE]

\* one run of waitForPageLoad: the page's timing and the method's outcome
Wait(loadFired, bodyAt, navAt, headerAt) ==
    LET w == waitForPageLoad(loadFired, bodyAt, navAt, headerAt)
    IN  [loadFired |-> loadFired, bodyAt |-> bodyAt, navAt |-> navAt,
         headerAt |-> headerAt, kind |-> w.kind, elapsed |-> w.elapsed,
         warned |-> w.warned]

\* ---- page-object methods ----

\* A candidate is a locator and whether it is used through .first()
Cand(l, first) == [loc |-> l, first |-> first]
ProbeCand(c) == IF c.first THEN isVisibleNth(c.loc, 0) ELSE isVisibleStrict(c.loc)
CandCall(c) ==
    Call(IF c.first THEN "first.isVisible" ELSE "isVisible", c.loc, 0, ProbeCand(c))

\* indices of the candidates whose probe .catch(() => false) yields true
Hits(cands) == {i \in 1..Len(cands) : Caught(ProbeCand(cands[i]))}
Least(S) == CHOOSE i \in S : \A j \in S : i <= j

\* the record a method leaves when it ends
Done(m, r, calls) ==
    /\ method' = m
    /\ ret' = r
    /\ probed' = calls
    /\ again' = (method = m /\ ret.kind = "returned")
    /\ listed' = (/\ method = "getVisibleLoginOptions"
                   /\ \E i \in 1..Len(ret.value) : ret.value[i] \in {"Email", "Email Form"})

\* a method body without click, fill or goto
PageFrame_Clicks == UNCHANGED <<dom, url, waited>> /\ acted' = "first match"
PageFrame == UNCHANGED <<dom, url, acted, waited>>
On(object) == pageObject = object /\ UNCHANGED pageObject
OthersIdle == UNCHANGED <<webhookVars, cookieVars, runVars>>

\* currentUrl.match(/.*angelcard\.us\/?$/)
IsHome(landing) == IF landing = HomeUrl THEN <<"true">> ELSE <<"false">>

\* await target.click(); await this.waitForPageLoad(); return ...
\* clicks is the set of ways the click can end on this page
ClickAndWait(m, probes, target, clicks, logs, reports) ==
    LET wrap(r) == IF logs THEN LoggedAndRethrown(r) ELSE r
        value(landing) == IF reports THEN IsHome(landing) ELSE <<>>
    IN  \E click \in clicks :
           IF click # "ok"
           THEN /\ Done(m, wrap(Raised(click, "locator.click")),
                        Append(probes, Call("click", target, 0, click)))
                /\ PageFrame
           ELSE \E loadFired \in BOOLEAN, landing \in {HomeUrl, OtherUrl} :
                  LET w == waitForPageLoad(loadFired, 0, StructTimeout + 1,
                                           StructTimeout + 1)
                  IN  /\ acted' = target
                      /\ waited' = Wait(loadFired, 0, StructTimeout + 1,
                                        StructTimeout + 1)
                      /\ url' = landing
                      /\ dom' = dom
                      /\ Done(m,
                              IF w.kind = "raised"
                              THEN wrap(Raised("TimeoutError", "page.waitForLoadState"))
                              ELSE Returned(value(landing)),
                              probes \o <<Call("click", target, 0, "ok"),
                                          Call("waitForPageLoad", "page", 0, w.kind)>>)

\* for (c of cands) if (await c.isVisible().catch(() => false)) { await
\* c.click(); await this.waitForPageLoad(); return; }  throw new Error(...)
ClickFirstVisible(m, cands, message, logs, reports) ==
    LET hits == Hits(cands)
        k == IF hits = {} THEN Len(cands) ELSE Least(hits)
        probes == [i \in 1..k |-> CandCall(cands[i])]
    IN  IF hits = {}
        THEN /\ Done(m, IF logs THEN LoggedAndRethrown(Raised("Error", message))
                        ELSE Raised("Error", message), probes)
             /\ PageFrame
        ELSE ClickAndWait(m, probes, cands[k].loc, {"ok"} \cup ClickFailures, logs, reports)

EmailCandidates ==
    <<Cand(continueWithEmailButton, FALSE)>>
    \o [i \in 1..Len(alternativeSelectors) |-> Cand(alternativeSelectors[i], TRUE)]

\* PlatformPage.clickContinueWithEmail
clickContinueWithEmail ==
    /\ On("PlatformPage")
    /\ ClickFirstVisible("clickContinueWithEmail", EmailCandidates,
                         "Could not find email login option", TRUE, FALSE)
    /\ OthersIdle

\* PlatformPage.clickContinueWithGoogle
clickContinueWithGoogle ==
    /\ On("PlatformPage")
    /\ ClickFirstVisible("clickContinueWithGoogle", <<Cand(continueWithGoogleButton, FALSE)>>,
                         "Google login option not found", TRUE, FALSE)
    /\ OthersIdle

\* PlatformPage.clickContinueWithApple
clickContinueWithApple ==
    /\ On("PlatformPage")
    /\ ClickFirstVisible("clickContinueWithApple", <<Cand(continueWithAppleButton, FALSE)>>,
                         "Apple login option not found", TRUE, FALSE)
    /\ OthersIdle

\* HomePage.clickAngelCardLogo
clickAngelCardLogo ==
    /\ On("HomePage")
    /\ ClickFirstVisible("clickAngelCardLogo", <<Cand(angelCardLogo, TRUE)>>,
                         "AngelCard logo is not visible on the page", FALSE, TRUE)
    /\ OthersIdle

\* a HomePage whose constructor leaves enterPlatformButton unset
HomePage_NoEnterButton ==
    [angelCardLogo |-> angelCardLogo, enterPlatformButton |-> ""]

\* new HomePage(page): the fields the constructor sets
HomePage ==
    [angelCardLogo |-> angelCardLogo, enterPlatformButton |-> enterPlatformButton]

\* HomePage.clickEnterPlatform; click() on a button that is absent or not
\* visible can only fail
clickEnterPlatform ==
    /\ On("HomePage")
    /\ IF HomePage.enterPlatformButton = ""   \* !this.enterPlatformButton
       THEN ClickFirstVisible("clickEnterPlatform",
                              [i \in 1..Len(possibleButtons) |-> Cand(possibleButtons[i], TRUE)],
                              "Enter Platform button not found on page", FALSE, FALSE)
       ELSE ClickAndWait("clickEnterPlatform", <<>>, HomePage.enterPlatformButton,
                         IF isVisibleNth(HomePage.enterPlatformButton, 0) = "visible"
                         THEN {"ok"} \cup ClickFailures ELSE ClickFailures,
                         FALSE, FALSE)
    /\ OthersIdle

\* The login options in the order getVisibleLoginOptions checks them
loginOptions ==
    <<[name |-> "Email", cand |-> Cand(continueWithEmailButton, FALSE)],
      [name |-> "Google", cand |-> Cand(continueWithGoogleButton, FALSE)],
      [name |-> "Apple", cand |-> Cand(continueWithAppleButton, FALSE)]>>
    \o [i \in 1..Len(otherOptions) |->
           [name |-> otherOptions[i].name, cand |-> Cand(otherOptions[i].selector, TRUE)]]

\* options kept across calls instead of const options = [] in each call
VisibleNames_Accumulated ==
    LET seen == SelectSeq(loginOptions, LAMBDA o : Caught(ProbeCand(o.cand)))
    IN  (IF method = "getVisibleLoginOptions" THEN ret.value ELSE <<>>)
        \o [i \in 1..Len(seen) |-> seen[i].name]

\* the names pushed to options, in order
VisibleNames ==
    LET seen == SelectSeq(loginOptions, LAMBDA o : Caught(ProbeCand(o.cand)))
    IN  [i \in 1..Len(seen) |-> seen[i].name]

\* PlatformPage.getVisibleLoginOptions
getVisibleLoginOptions ==
    /\ On("PlatformPage")
    /\ Done("getVisibleLoginOptions", Returned(VisibleNames),
            [i \in 1..Len(loginOptions) |-> CandCall(loginOptions[i].cand)])
    /\ PageFrame
    /\ OthersIdle

Bool(b) == IF b THEN <<"true">> ELSE <<"false">>

\* HomePage.isEnterPlatformButtonVisible
isEnterPlatformButtonVisible ==
    LET cands == [i \in 1..Len(possibleButtons) |-> Cand(possibleButtons[i], TRUE)]
        hits == Hits(cands)
        k == IF hits = {} THEN Len(cands) ELSE Least(hits)
    IN  /\ On("HomePage")
        /\ Done("isEnterPlatformButtonVisible", Returned(Bool(hits # {})),
                [i \in 1..k |-> CandCall(cands[i])])
        /\ PageFrame
        /\ OthersIdle

\* for (let i = 0; i < n; i++) { if (await l.nth(i).isVisible().catch(() =>
\* false)) return true; }: the indices probed and whether one was visible
NthHits(l, n) == {i \in 0..(n - 1) : Caught(isVisibleNth(l, i))}
NthProbes(l, n) ==
    LET hits == NthHits(l, n)
        last == IF hits = {} THEN n - 1 ELSE Least(hits)
    IN  [j \in 1..(last + 1) |-> Call("nth.isVisible", l, j - 1, isVisibleNth(l, j - 1))]

\* Math.min(count, 5)
MaxProbed == 5

\* catch (error) { return false; } around the whole of isCookieConsentVisible
AssumeNoConsent_Rethrown == Raised("Error", "locator.count")
AssumeNoConsent == Returned(Bool(FALSE))

\* PlatformPage.isCookieConsentVisible
isCookieConsentVisible ==
    LET l == cookieConsentContainer
        n == Min(countOf(l), MaxProbed)
        alt == Cand(acceptButton, TRUE)
    IN  /\ On("PlatformPage")
        /\ IF count(l) = "throws"
           THEN Done("isCookieConsentVisible", AssumeNoConsent,
                     <<Call("count", l, 0, "throws")>>)
           ELSE IF NthHits(l, n) # {}
           THEN Done("isCookieConsentVisible", Returned(Bool(TRUE)),
                     <<Call("count", l, 0, "ok")>> \o NthProbes(l, n))
           ELSE Done("isCookieConsentVisible", Returned(Bool(Caught(ProbeCand(alt)))),
                     <<Call("count", l, 0, "ok")>> \o NthProbes(l, n) \o <<CandCall(alt)>>)
        /\ PageFrame
        /\ OthersIdle

\* BasePage.isVisible(locator)
isVisible ==
    \E l \in WholeLocators :
        LET n == countOf(l)   \* count().catch(() => 0)
            first == <<Call("count", l, 0, count(l))>>
        IN  /\ UNCHANGED pageObject
            /\ IF n > 1
               THEN Done("isVisible", Returned(Bool(NthHits(l, n) # {})),
                         first \o NthProbes(l, n))
               ELSE IF n = 1
               THEN Done("isVisible", Returned(Bool(Caught(isVisibleStrict(l)))),
                         Append(first, Call("isVisible", l, 0, isVisibleStrict(l))))
               ELSE Done("isVisible", Returned(Bool(FALSE)), first)
            /\ PageFrame
            /\ OthersIdle

InitPages ==
    /\ pageObject \in PageObjects
    /\ dom \in Pages(pageObject)
    /\ url = "about:blank"
    /\ acted = ""
    /\ method = ""
    /\ ret = NoReturn
    /\ probed = <<>>
    /\ again = FALSE
    /\ listed = FALSE
    /\ waited = NoWait
    /\ RunIdle
    /\ WebhookIdle
    /\ CookiesIdle

NextPages ==
    \/ getVisibleLoginOptions
    \/ clickContinueWithEmail
    \/ clickContinueWithGoogle
    \/ clickContinueWithApple
    \/ clickAngelCardLogo
    \/ clickEnterPlatform
    \/ isEnterPlatformButtonVisible
    \/ isCookieConsentVisible
    \/ isVisible

SpecPages == InitPages /\ [][NextPages]_vars

\* ---- BasePage.waitForPageLoad on its own ----

\* when body, nav and header appear, in seconds; one past the timeout
\* stands for never
BodyTimes == 0..(BodyTimeout + 1)
StructTimes == 0..(StructTimeout + 1)

\* BasePage.waitForPageLoad, called after a navigation
WaitForPageLoad ==
    /\ \E loadFired \in BOOLEAN, bodyAt \in BodyTimes, navAt, headerAt \in StructTimes :
           waited' = Wait(loadFired, bodyAt, navAt, headerAt)
    /\ UNCHANGED <<pageObject, dom, url, acted, method, ret, probed, again, listed>>
    /\ UNCHANGED <<webhookVars, cookieVars, runVars>>

InitLoad ==
    /\ PagesIdle
    /\ WebhookIdle
    /\ CookiesIdle

NextLoad == WaitForPageLoad

SpecLoad == InitLoad /\ [][NextLoad]_vars


\* ---- the test runner under playwright.config.js ----

MaxTests == 2

\* process.env values are strings, here sequences of characters; a variable
\* that is not set reads as undefined
Undefined == <<"undefined">>
Digits == <<"0", "1", "2", "3", "4", "5", "6", "7", "8", "9">>
IsDigit(c) == \E d \in 1..Len(Digits) : Digits[d] = c
DigitValue(c) == (CHOOSE d \in 1..Len(Digits) : Digits[d] = c) - 1
RECURSIVE Decimal(_)
Decimal(v) ==
    IF v = <<>> THEN 0
    ELSE 10 * Decimal(SubSeq(v, 1, Len(v) - 1)) + DigitValue(v[Len(v)])

\* Number(value): NaN for undefined and for text that is not a numeral, 0
\* for the empty string
NaN == [nan |-> TRUE, n |-> 0]
Number(v) ==
    IF v = Undefined THEN NaN
    ELSE IF \A i \in 1..Len(v) : IsDigit(v[i]) THEN [nan |-> FALSE, n |-> Decimal(v)]
    ELSE NaN
\* x || d on a number: NaN and 0 are falsy
OrDefault(x, d) == IF x.nan \/ x.n = 0 THEN d ELSE x.n

Environments ==
    [RETRIES : {Undefined, <<"0">>, <<"2">>, <<"x">>},
     DEFAULT_TIMEOUT : {Undefined, <<"0">>, <<"9", "0", "0", "0", "0">>}]

projects == <<"chromium", "firefox", "webkit", "mobile-chrome", "mobile-safari">>

\* a configuration that lets two workers run tests of one file side by side
defineConfig_Parallel(env) ==
    [timeout |-> OrDefault(Number(env.DEFAULT_TIMEOUT), 60000),
     retries |-> OrDefault(Number(env.RETRIES), 1),
     workers |-> 2,
     fullyParallel |-> TRUE,
     projects |-> projects]

\* module.exports = defineConfig({ ... })
defineConfig(env) ==
    [timeout |-> OrDefault(Number(env.DEFAULT_TIMEOUT), 60000),
     retries |-> OrDefault(Number(env.RETRIES), 1),
     workers |-> 1,
     fullyParallel |-> FALSE,
     projects |-> projects]

\* the tests of the run, project by project, each at its first attempt
Test(project, t, attempt) == [project |-> project, test |-> t, attempt |-> attempt]
TestsOf(project) == [t \in 1..MaxTests |-> Test(project, t, 0)]
RECURSIVE AllTests(_)
AllTests(ps) == IF ps = <<>> THEN <<>> ELSE TestsOf(Head(ps)) \o AllTests(Tail(ps))

\* a worker is free and takes the next test; without fullyParallel the tests
\* of one project's file are never run side by side
StartTest ==
    /\ suite.pending # <<>>
    /\ Cardinality(suite.active) < suite.config.workers
    /\ suite.config.fullyParallel
        \/ \A t \in suite.active : t.project # Head(suite.pending).project
    /\ suite' = [suite EXCEPT !.pending = Tail(@),
                              !.active = @ \cup {Head(suite.pending)},
                              !.started = @ + 1]
    /\ UNCHANGED <<webhookVars, cookieVars, pageVars, hook>>

\* a running test passes
PassTest ==
    /\ \E t \in suite.active : suite' = [suite EXCEPT !.active = @ \ {t}]
    /\ UNCHANGED <<webhookVars, cookieVars, pageVars, hook>>

\* a running test fails or times out; it is queued again while retries remain
FailTest ==
    /\ \E t \in suite.active :
           suite' = [suite EXCEPT
                        !.active = @ \ {t},
                        !.pending = IF t.attempt < suite.config.retries
                                    THEN <<Test(t.project, t.test, t.attempt + 1)>> \o @
                                    ELSE @]
    /\ UNCHANGED <<webhookVars, cookieVars, pageVars, hook>>

InitRunner ==
    /\ \E env \in Environments :
           suite = [env |-> env, config |-> defineConfig(env),
                    pending |-> AllTests(defineConfig(env).projects),
                    active |-> {}, started |-> 0]
    /\ hook = NoHook
    /\ waited = NoWait
    /\ pageObject = ""
    /\ dom = <<>>
    /\ url = ""
    /\ acted = ""
    /\ method = ""
    /\ ret = NoReturn
    /\ probed = <<>>
    /\ again = FALSE
    /\ listed = FALSE
    /\ WebhookIdle
    /\ CookiesIdle

NextRunner == StartTest \/ PassTest \/ FailTest

SpecRunner == InitRunner /\ [][NextRunner]_vars

\* ---- the beforeEach hooks of the two test files ----

\* platform-entry hook: the locators searched for an entry button
possibleEntryButtons ==
    <<"role=link[name=/sign.?in|log.?in|register|enter|platform/i]",
      "a:has-text(/sign.?in|log.?in|register|enter|platform/i)",
      "role=button[name=/sign.?in|log.?in|register|enter|platform/i]",
      "button:has-text(/sign.?in|log.?in|register|enter|platform/i)">>
PlatformUrl == "https://platform.angelcard.us/"

Hooks == {"home", "platform"}
Outcomes == {"ok", "throws"}

\* the hook moves on to position pc after the calls made
Go(calls, to) ==
    hook' = [hook EXCEPT !.calls = @ \o calls, !.pc = to]
\* the hook ends
End(calls, how) ==
    hook' = [hook EXCEPT !.calls = @ \o calls, !.pc = "done", !.outcome = how]
\* a search that, after the last locator, goes on without navigating
NextLocator_GivesUp(calls) ==
    IF hook.k < Len(possibleEntryButtons)
    THEN hook' = [hook EXCEPT !.calls = @ \o calls, !.pc = "count", !.k = @ + 1,
                              !.i = 0, !.n = 0]
    ELSE Go(calls, "finalScreenshot")

\* the search moves to the next locator, or gives up after the last
NextLocator(calls) ==
    IF hook.k < Len(possibleEntryButtons)
    THEN hook' = [hook EXCEPT !.calls = @ \o calls, !.pc = "count", !.k = @ + 1,
                              !.i = 0, !.n = 0]
    ELSE Go(calls, "goto")
HookFrame == UNCHANGED <<webhookVars, cookieVars, pageVars, suite>>
At(name, at) == hook.name = name /\ hook.pc = at

\* test.beforeEach(async ({ page }) => { ... }) is entered
BeforeEach ==
    /\ hook = NoHook
    /\ \E name \in Hooks :
           hook' = [NoHook EXCEPT !.name = name,
                      !.pc = IF name = "home" THEN "navigateToHomePage"
                             ELSE "navigateToPlatform"]
    /\ HookFrame

\* the hook with the inner try / catch only
HomeHookStep_InnerCatchOnly ==
    /\ hook.name = "home"
    /\ hook.pc \in {"navigateToHomePage", "screenshot", "acceptCookies"}
    /\ \E r \in Outcomes :
           LET call == <<Call(hook.pc, "page", 0, r)>>
           IN  IF r = "throws"
               THEN IF hook.pc = "acceptCookies"
                    THEN End(call \o <<Call("logger.warn", "", 0, "ok")>>, "returned")
                    ELSE End(call, "raised")
               ELSE IF hook.pc = "navigateToHomePage" THEN Go(call, "screenshot")
               ELSE IF hook.pc = "screenshot" THEN Go(call, "acceptCookies")
               ELSE End(call, "returned")
    /\ HookFrame

\* homeNavigation.spec.js beforeEach: the outer and the inner try / catch
HomeHookStep ==
    /\ hook.name = "home"
    /\ hook.pc \in {"navigateToHomePage", "screenshot", "acceptCookies"}
    /\ \E r \in Outcomes :
           LET call == <<Call(hook.pc, "page", 0, r)>>
           IN  IF r = "throws"
               THEN End(call \o <<Call(IF hook.pc = "acceptCookies" THEN "logger.warn"
                                        ELSE "logger.error", "", 0, "ok")>>, "returned")
               ELSE IF hook.pc = "navigateToHomePage" THEN Go(call, "screenshot")
               ELSE IF hook.pc = "screenshot" THEN Go(call, "acceptCookies")
               ELSE End(call, "returned")
    /\ HookFrame

\* platform-entry beforeEach: await platformPage.navigateToPlatform()
NavigateToPlatform ==
    /\ At("platform", "navigateToPlatform")
    /\ \E r \in Outcomes :
           LET call == <<Call("navigateToPlatform", PlatformUrl, 0, r)>>
           IN  IF r = "ok" THEN Go(call, "handleCookieConsent")
               ELSE Go(call \o <<Call("logger.warn", "", 0, "ok")>>, "navigateToHomePage")
    /\ HookFrame

\* a handleCookieConsent whose catch block throws the error on
HandleCookieConsent_Rethrows ==
    /\ At("platform", "handleCookieConsent")
    /\ \E r \in Outcomes :
           LET call == <<Call("acceptCookies", "platformPage", 0, r)>>
           IN  IF r = "ok" THEN End(call, "returned")
               ELSE Go(call \o <<Call("logger.warn", "", 0, "ok")>>, "navigateToHomePage")
    /\ HookFrame

\* await platformPage.handleCookieConsent(); return;  handleCookieConsent
\* wraps acceptCookies in try / catch and logs a warning
HandleCookieConsent ==
    /\ At("platform", "handleCookieConsent")
    /\ \E r \in Outcomes :
           LET call == <<Call("acceptCookies", "platformPage", 0, r)>>
           IN  IF r = "ok" THEN End(call, "returned")
               ELSE End(call \o <<Call("logger.warn", "", 0, "ok")>>, "returned")
    /\ HookFrame

\* the calls of the fallback path that either succeed or go to the outer
\* catch: navigateToHomePage, acceptCookies, screenshot, click,
\* waitForTimeout, the inner page.goto
FallbackPcs ==
    <<"navigateToHomePage", "acceptCookies", "screenshot", "clickEnterPlatform">>
PcAfter(at) ==
    IF at = "click" THEN "waitForTimeout"
    ELSE IF at \in {"waitForTimeout", "goto"} THEN "finalScreenshot"
    ELSE FallbackPcs[(CHOOSE j \in 1..Len(FallbackPcs) : FallbackPcs[j] = at) + 1]
TargetAt(at) ==
    IF at = "click" THEN possibleEntryButtons[hook.k]
    ELSE IF at = "goto" THEN PlatformUrl
    ELSE "page"
FallbackStep ==
    /\ hook.name = "platform"
    /\ hook.pc \in {"navigateToHomePage", "acceptCookies", "screenshot", "click",
                     "waitForTimeout", "goto"}
    /\ \E r \in Outcomes :
           LET call == <<Call(hook.pc, TargetAt(hook.pc), hook.i, r)>>
           IN  IF r = "ok" THEN Go(call, PcAfter(hook.pc))
               ELSE Go(call \o <<Call("logger.error", "", 0, "ok")>>, "lastResort")
    /\ HookFrame

\* try { await homePage.clickEnterPlatform(); } catch (e) { logger.warn(...);
\* ... the search for an entry button ... }
ClickEnterPlatformStep ==
    /\ At("platform", "clickEnterPlatform")
    /\ \E r \in Outcomes :
           LET call == <<Call("clickEnterPlatform", enterPlatformButton, 0, r)>>
           IN  IF r = "ok" THEN Go(call, "finalScreenshot")
               ELSE hook' = [hook EXCEPT
                               !.calls = @ \o call \o <<Call("logger.warn", "", 0, "ok")>>,
                               !.pc = "count", !.k = 1, !.i = 0, !.n = 0]
    /\ HookFrame

\* const count = await buttonLocator.count(); if (count > 0) { ... }
CountStep ==
    /\ At("platform", "count")
    /\ \/ Go(<<Call("count", possibleEntryButtons[hook.k], 0, "throws"),
                Call("logger.error", "", 0, "ok")>>, "lastResort")
       \/ \E n \in 0..MaxButtons :
              LET call == <<Call("count", possibleEntryButtons[hook.k], 0, "ok")>>
              IN  IF n = 0 THEN NextLocator(call)
                  ELSE hook' = [hook EXCEPT !.calls = @ \o call, !.pc = "isVisible",
                                            !.i = 0, !.n = n]
    /\ HookFrame

\* if (await button.isVisible({ timeout: 1000 }).catch(() => false)) ...
ProbeStep ==
    /\ At("platform", "isVisible")
    /\ \E r \in ProbeResults :
           LET call == <<Call("nth.isVisible", possibleEntryButtons[hook.k], hook.i,
                              IF Caught(r) THEN "visible" ELSE "hidden")>>
           IN  IF Caught(r) THEN Go(call, "click")
               ELSE IF hook.i + 1 < hook.n
               THEN hook' = [hook EXCEPT !.calls = @ \o call, !.i = @ + 1]
               ELSE NextLocator(call)
    /\ HookFrame

\* catch (error) { logger.error(...); await page.goto(platform) }, then the
\* screenshot after the navigation attempts; neither is inside a try block
LastCalls ==
    /\ hook.name = "platform"
    /\ hook.pc \in {"lastResort", "finalScreenshot"}
    /\ \E r \in Outcomes :
           LET call == <<Call(IF hook.pc = "lastResort" THEN "goto" ELSE "screenshot",
                              IF hook.pc = "lastResort" THEN PlatformUrl ELSE "page",
                              0, r)>>
           IN  IF r = "throws" THEN End(call, "raised")
               ELSE IF hook.pc = "lastResort" THEN Go(call, "finalScreenshot")
               ELSE End(call, "returned")
    /\ HookFrame

InitHooks ==
    /\ suite = NoSuite
    /\ hook = NoHook
    /\ waited = NoWait
    /\ pageObject = ""
    /\ dom = <<>>
    /\ url = ""
    /\ acted = ""
    /\ method = ""
    /\ ret = NoReturn
    /\ probed = <<>>
    /\ again = FALSE
    /\ listed = FALSE
    /\ WebhookIdle
    /\ CookiesIdle

NextHooks ==
    \/ BeforeEach
    \/ HomeHookStep
    \/ NavigateToPlatform
    \/ HandleCookieConsent
    \/ FallbackStep
    \/ ClickEnterPlatformStep
    \/ CountStep
    \/ ProbeStep
    \/ LastCalls

SpecHooks == InitHooks /\ [][NextHooks]_vars

\* ---- page-object claims ----

\* a candidate is visible when the element it denotes is: the first match of
\* a .first() candidate, some match of a whole locator
CandVisible(c) ==
    IF dom[c.loc] = Broken THEN FALSE
    ELSE IF c.first THEN Len(dom[c.loc]) > 0 /\ dom[c.loc][1] = "v"
    ELSE \E i \in 1..Len(dom[c.loc]) : dom[c.loc][i] = "v"

\* the locators the last method clicked, in order
Clicks == SelectSeq(probed, LAMBDA c : c.op = "click")

\* C12: clickContinueWithEmail tries its candidates in priority order and
\* clicks the first visible one: whenever some candidate is visible, the one
\* click it makes is on the highest-priority visible candidate.
C12_EmailPriority ==
    method = "clickContinueWithEmail" =>
        LET vis == {i \in 1..Len(EmailCandidates) : CandVisible(EmailCandidates[i])}
        IN  vis # {} =>
                /\ Len(Clicks) = 1
                /\ Clicks[1].target = EmailCandidates[Least(vis)].loc

\* the methods that only resolve a candidate list to a boolean
BooleanResolvers == {"isEnterPlatformButtonVisible", "isCookieConsentVisible", "isVisible"}
NoneVisible(ls) == \A l \in ls : \A i \in 1..Len(dom[l]) : dom[l][i] # "v"
\* the locators the last boolean resolver consulted
Consulted ==
    IF method = "isEnterPlatformButtonVisible" THEN Range(possibleButtons)
    ELSE IF method = "isCookieConsentVisible" THEN ConsentLocators
    ELSE {probed[1].target}
Threw(ops) == \E i \in 1..Len(probed) : probed[i].op \in ops /\ probed[i].result = "throws"

\* C13: isEnterPlatformButtonVisible, isCookieConsentVisible and
\* BasePage.isVisible never raise; they return false when none of the
\* locators they consult matches a visible element and when the element
\* count fails, and a failed probe is taken as "not visible".
C13_ResolutionNeverRaises ==
    method \in BooleanResolvers =>
        /\ ret.kind = "returned"
        /\ ret.value \in {Bool(TRUE), Bool(FALSE)}
        /\ NoneVisible(Consulted) => ret.value = Bool(FALSE)
        /\ Threw({"count"}) => ret.value = Bool(FALSE)
        /\ ret.value = Bool(TRUE) =>
               \E i \in 1..Len(probed) : probed[i].result = "visible"

\* the count of the consent container failed and the answer is false
C13_Witness ==
    /\ method = "isCookieConsentVisible"
    /\ Threw({"count"})
    /\ ret = Returned(Bool(FALSE))

\* the candidates of each click method
ClickMethods ==
    {"clickContinueWithEmail", "clickContinueWithGoogle", "clickContinueWithApple",
     "clickAngelCardLogo"}
CandidatesOf(m) ==
    IF m = "clickContinueWithEmail" THEN EmailCandidates
    ELSE IF m = "clickContinueWithGoogle" THEN <<Cand(continueWithGoogleButton, FALSE)>>
    ELSE IF m = "clickContinueWithApple" THEN <<Cand(continueWithAppleButton, FALSE)>>
    ELSE <<Cand(angelCardLogo, TRUE)>>
CandidateNames(m) == [i \in 1..Len(CandidatesOf(m)) |-> CandidatesOf(m)[i].loc]

\* C14: when none of its candidates is visible, a click method raises a
\* typed "AffordanceNotFound" condition that carries the names of the
\* candidates it attempted, and clicks nothing.
C14_AffordanceNotFound ==
    (/\ method \in ClickMethods
     /\ \A i \in 1..Len(CandidatesOf(method)) : ~CandVisible(CandidatesOf(method)[i]))
    => /\ ret.kind = "raised"
       /\ ret.error.type = "AffordanceNotFound"
       /\ ret.error.candidates = CandidateNames(method)
       /\ Clicks = <<>>

\* the per-element probes of the last method, in the order made
NthCalls == SelectSeq(probed, LAMBDA c : c.op = "nth.isVisible")

\* C15: when BasePage.isVisible or isCookieConsentVisible probes the
\* elements of a multi-match locator one by one, it does so in index order,
\* probes at most the first five, and answers true at the first probe that
\* reports visible.
C15_ProbesFirstFiveInOrder ==
    method \in {"isVisible", "isCookieConsentVisible"} =>
        /\ \A j \in 1..Len(NthCalls) : NthCalls[j].nth = j - 1
        /\ Len(NthCalls) <= MaxProbed
        /\ \A j \in 1..Len(NthCalls) :
               NthCalls[j].result = "visible" =>
                   j = Len(NthCalls) /\ ret.value = Bool(TRUE)

\* the methods that resolve candidates without acting on them
Resolvers == BooleanResolvers \cup {"getVisibleLoginOptions"}
Queries == {"count", "isVisible", "first.isVisible", "nth.isVisible"}

\* the methods that click
Actors == ClickMethods \cup {"clickEnterPlatform"}

\* what C16 asks of one step
ReadOnlyStep ==
    /\ (method' \in Resolvers) =>
           (/\ <<dom, url, acted>>' = <<dom, url, acted>>
            /\ \A i \in 1..Len(probed') : probed'[i].op \in Queries)
    /\ (<<dom, url, acted>>' # <<dom, url, acted>>) =>
           (/\ method' \in Actors
            /\ \E i \in 1..Len(probed') : probed'[i].op = "click")

\* C16: a step of getVisibleLoginOptions, isCookieConsentVisible,
\* isEnterPlatformButtonVisible or BasePage.isVisible makes only count and
\* visibility queries and leaves the URL, the DOM and the clicked element
\* as they were; a step that changes any of them is a click method's, and
\* it clicked.
C16_ResolutionReadOnly == [][ReadOnlyStep]_vars

\* login options were listed, some visible, on a page an earlier click had
\* acted on, and the record of that click is still there
C16_Witness ==
    /\ method = "getVisibleLoginOptions"
    /\ ret.value # <<>>
    /\ acted # ""
    /\ url # "about:blank"

\* the registry order of the option names
RegistryOrder ==
    <<"Email", "Google", "Apple", "Facebook", "Twitter", "GitHub", "Microsoft", "Email Form">>
PlaceOf(name) == CHOOSE i \in 1..Len(RegistryOrder) : RegistryOrder[i] = name
InRegistryOrder(names) ==
    /\ \A i \in 1..Len(names) : names[i] \in Range(RegistryOrder)
    /\ \A i, j \in 1..Len(names) : i < j => PlaceOf(names[i]) < PlaceOf(names[j])

\* what C17 asks of one step
RepeatableStep ==
    (method' = "getVisibleLoginOptions") =>
        /\ ret'.kind = "returned"
        /\ InRegistryOrder(ret'.value)
        /\ (method = "getVisibleLoginOptions" /\ dom' = dom) => ret'.value = ret.value

\* C17: getVisibleLoginOptions called directly after itself on an unchanged
\* page returns the same names in the same order, and every result lists
\* its names in the registry order Email, Google, Apple, Facebook, Twitter,
\* GitHub, Microsoft, Email Form.
C17_EnumerationRepeatable == [][RepeatableStep]_vars

\* the second of two calls in succession, with two options listed
C17_Witness ==
    /\ method = "getVisibleLoginOptions"
    /\ again
    /\ Len(ret.value) = 2

\* the page exposes the one control l, visible, and no other login option
\* is visible
OnlyControl(l) ==
    /\ dom[l] = <<"v">>
    /\ NoneVisible(LoginLocators \ {l})

\* C18: on a platform page whose only visible login option is one email
\* login control, getVisibleLoginOptions returns exactly <<"Email">>; when
\* it is one bare email input in a form, exactly <<"Email Form">>.
C18_OnlyEmailListed ==
    method = "getVisibleLoginOptions" =>
        /\ OnlyControl(continueWithEmailButton) => ret = Returned(<<"Email">>)
        /\ OnlyControl("form input[type=email]") => ret = Returned(<<"Email Form">>)

\* only a bare email input is shown, beside a hidden Google button
C18_Witness ==
    /\ method = "getVisibleLoginOptions"
    /\ OnlyControl("form input[type=email]")
    /\ dom[continueWithGoogleButton] = <<"h">>
    /\ ret.value = <<"Email Form">>

\* C19: getVisibleLoginOptions returns exactly the options visible at the
\* time of the call: a registry entry is listed if and only if its
\* candidate matches a visible element now, also when its locator matches
\* more than one element, whatever earlier calls returned and whatever
\* the probes of the other entries did.
C19_ExactlyTheVisible ==
    method = "getVisibleLoginOptions" =>
        /\ ret.kind = "returned"
        /\ \A i \in 1..Len(loginOptions) :
               (loginOptions[i].name \in Range(ret.value))
                   <=> CandVisible(loginOptions[i].cand)

\* C20: once the load event has fired waitForPageLoad returns normally,
\* whether nav, header, both or neither appear and whether or not body
\* becomes visible; when body is visible it ends as soon as the first of
\* the nav and header waits settles, each settling when its element appears
\* or its timeout runs out.
C20_StabilisationAdvisory ==
    (waited # NoWait /\ waited.loadFired) =>
        /\ waited.kind = "returned"
        /\ waited.bodyAt <= BodyTimeout =>
               /\ waited.elapsed =
                      waited.bodyAt + Min(Settle(waited.navAt), Settle(waited.headerAt))
               /\ ~waited.warned

\* neither nav nor header ever appears, body is visible after a second, and
\* the wait returned after the structural timeout
C20_Witness ==
    /\ waited.loadFired
    /\ waited.bodyAt = 1
    /\ waited.navAt > StructTimeout
    /\ waited.headerAt > StructTimeout
    /\ waited.kind = "returned"
    /\ waited.elapsed = 1 + StructTimeout

\* the three login click methods, whose bodies sit in try / catch
LoginClickMethods ==
    {"clickContinueWithEmail", "clickContinueWithGoogle", "clickContinueWithApple"}

\* C21: when the click on the visible candidate fails inside one of the
\* three login click methods, the method raises that same failure, logged
\* and rethrown, not a not-found error; the failed click is its only click
\* and its last browser call.
C21_ClickFailurePropagated ==
    (/\ method \in LoginClickMethods
     /\ \E i \in 1..Len(Clicks) : Clicks[i].result # "ok")
    => /\ ret.kind = "raised"
       /\ ret.logged
       /\ ret.error = Raised(Clicks[1].result, "locator.click").error
       /\ Len(Clicks) = 1
       /\ probed[Len(probed)] = Clicks[1]

\* the click on the primary email control failed while an alternative
\* candidate was visible as well
C21_Witness ==
    /\ method = "clickContinueWithEmail"
    /\ Len(Clicks) = 1
    /\ Clicks[1].result = "TargetClosedError"
    /\ Clicks[1].target = continueWithEmailButton
    /\ \E i \in 2..Len(EmailCandidates) : CandVisible(EmailCandidates[i])
    /\ ret.kind = "raised"

\* what C22 asks of one step of the run
SequentialStep ==
    /\ Cardinality(suite'.active) <= 1
    /\ (suite'.started > suite.started) => suite.active = {}

C23_EnvironmentSupplied ==
    LET r == Number(suite.env.RETRIES)
        t == Number(suite.env.DEFAULT_TIMEOUT)
    IN  /\ (suite.env.RETRIES = Undefined) => suite.config.retries = 1
        /\ (~r.nan) => suite.config.retries = r.n
        /\ (suite.env.DEFAULT_TIMEOUT = Undefined) => suite.config.timeout = 60000
        /\ (~t.nan) => suite.config.timeout = t.n

\* positions in the hook's calls of the calls of one kind, and of those that threw
CallsOf(ops) == {i \in 1..Len(hook.calls) : hook.calls[i].op \in ops}
ThrownIn(ops) == {i \in CallsOf(ops) : hook.calls[i].result = "throws"}
Loggers == {"logger.warn", "logger.error"}

\* C24: the home-navigation beforeEach hook never fails: when
\* navigateToHomePage, the screenshot or acceptCookies raises, the error is
\* logged and the hook returns normally.
C24_HomeHookNeverFails ==
    hook.name = "home" =>
        /\ hook.outcome # "raised"
        /\ hook.pc = "done" => hook.outcome = "returned"
        /\ \A i \in ThrownIn({"navigateToHomePage", "screenshot", "acceptCookies"}) :
               /\ i < Len(hook.calls)
               /\ hook.calls[i + 1].op \in Loggers

\* the screenshot failed after a successful navigation and the hook returned
C24_Witness ==
    /\ hook.name = "home"
    /\ hook.pc = "done"
    /\ ThrownIn({"screenshot"}) # {}
    /\ hook.outcome = "returned"

\* C25: when navigateToPlatform succeeds, the platform-entry hook does
\* nothing after it but handle cookie consent and return: it does not
\* navigate to the home page, click, or issue a page.goto, also when the
\* cookie handling fails.
C25_FallbackOnlyAfterFailedNavigation ==
    (/\ hook.name = "platform"
     /\ hook.calls # <<>>
     /\ hook.calls[1].result = "ok")
    => /\ \A i \in 2..Len(hook.calls) : hook.calls[i].op \in {"acceptCookies", "logger.warn"}
       /\ hook.outcome # "raised"
       /\ CallsOf({"acceptCookies"}) # {} => (hook.pc = "done" /\ hook.outcome = "returned")

\* direct navigation succeeded, cookie handling failed, the hook returned
C25_Witness ==
    /\ hook.name = "platform"
    /\ hook.pc = "done"
    /\ hook.calls[1].result = "ok"
    /\ ThrownIn({"acceptCookies"}) # {}
    /\ hook.outcome = "returned"

\* C26: in the platform-entry hook at most one click on a candidate entry
\* button is attempted, and whenever the hook went through its fallback
\* path and returned normally, clickEnterPlatform succeeded, or the one
\* candidate click succeeded, or page.goto to the platform URL was issued.
C26_FallbackReachesPlatform ==
    hook.name = "platform" =>
        /\ Cardinality(CallsOf({"click"})) <= 1
        /\ (/\ hook.outcome = "returned"
            /\ CallsOf({"navigateToHomePage"}) # {})
           => \/ CallsOf({"clickEnterPlatform"}) \ ThrownIn({"clickEnterPlatform"}) # {}
              \/ CallsOf({"click"}) \ ThrownIn({"click"}) # {}
              \/ \E i \in CallsOf({"goto"}) : hook.calls[i].target = PlatformUrl

\* clickEnterPlatform failed, the first locator matched nothing visible, a
\* button of a later locator was clicked, and the hook returned
C26_Witness ==
    /\ hook.name = "platform"
    /\ hook.outcome = "returned"
    /\ ThrownIn({"clickEnterPlatform"}) # {}
    /\ hook.k > 1
    /\ CallsOf({"click"}) \ ThrownIn({"click"}) # {}
    /\ CallsOf({"goto"}) = {}

\* the clicks of the current invocation of acceptCookies
CookieClicks == {i \in 1..Len(trace) : trace[i].op = "click"}

\* C27: one invocation of acceptCookies attempts at most one click, over
\* the three strategies and the five banner selectors, whichever probes or
\* clicks fail.
C27_AtMostOneClick == Cardinality(CookieClicks) <= 1

\* the click on the first banner failed, four banner selectors were left,
\* and the invocation is over
C27_Witness ==
    /\ pc = "idle"
    /\ \E i \in CookieClicks :
           /\ trace[i].target = cookieBanners[1]
           /\ ~trace[i].result
    /\ Cardinality(CookieClicks) = 1

\* what C28 asks of a clickContinueWithEmail step
AgreeingStep ==
    (/\ method = "getVisibleLoginOptions"
     /\ \E i \in 1..Len(ret.value) : ret.value[i] \in {"Email", "Email Form"}
     /\ method' = "clickContinueWithEmail"
     /\ dom' = dom)
    => /\ Len(SelectSeq(probed', LAMBDA c : c.op = "click")) = 1
       /\ \E i \in 1..Len(probed') : probed'[i].result = "visible"
       /\ ret'.error.message # "Could not find email login option"

\* C28: when getVisibleLoginOptions has just reported "Email" or "Email
\* Form", clickContinueWithEmail on the same page finds a visible candidate,
\* attempts exactly one click and does not raise 'Could not find email
\* login option'.
C28_EnumerationAgreesWithClick == [][AgreeingStep]_vars

\* "Email Form" was listed, and the click that followed on the same page
\* went to the email input, the second candidate tried
C28_Witness ==
    /\ method = "clickContinueWithEmail"
    /\ listed
    /\ Len(Clicks) = 1
    /\ Clicks[1].target = "form input[type=email]"
    /\ Len(probed) > 2

====
